---- MODULE Spec2Model ----
(***************************************************************************)
(* Model of the constraint-propagation Sudoku grid                         *)
(* (src/src/model/sudoku_base.py, src/src/model/sudoku_cp.py) and of the   *)
(* backtracking solver that drives it (src/src/solvers/bt_cp.py,           *)
(* src/src/solvers/utils.py).                                              *)
(*                                                                         *)
(* numpy arrays live in a heap (arrays) and objects refer to them by       *)
(* index, so that two objects built on the same array alias each other     *)
(* exactly as they do in Python.                                           *)
(***************************************************************************)
EXTENDS Integers, Sequences, FiniteSets, TLC

VARIABLES
    arrays,         \* heap of 9x9 numpy arrays: Seq([Cell -> Int])
    sudoku,         \* the caller's SudokuGrid: [inner_grid: ref, empty_cell_marker]
    cp_grid,        \* the ConstraintPropagationSudokuGrid under work (or NoGrid)
    last_call,      \* the last public call made on cp_grid and how it ended
    pc,             \* position of bt_cp_sudoku_solver
    stack,          \* active solver_aux frames, innermost last
    ret,            \* value returned by the solver_aux call that just ended
    result,         \* what bt_cp_sudoku_solver returned
    sudoku_before   \* contents of the caller's array when the solver was called

vars == <<arrays, sudoku, cp_grid, last_call, pc, stack, ret, result, sudoku_before>>

(***************************************************************************)
(* Program constants                                                       *)
(***************************************************************************)
GridSize == 9
SquareSize == 3
DefaultMarker == -777
TestMarker == -1

Indices == 0..(GridSize - 1)
Cell == Indices \X Indices
Digits == 1..GridSize
Markers == {DefaultMarker, TestMarker}

\* CellCoordinates(row, col); rows and columns are 0-based
Row(cell) == cell[1]
Col(cell) == cell[2]

\* Python's None, as a cell and as a solver result
None == << >>

\* the solved_sudoku fixture
SolvedRows ==
    << <<8, 2, 7, 1, 5, 4, 3, 9, 6>>,
       <<9, 6, 5, 3, 2, 7, 1, 4, 8>>,
       <<3, 4, 1, 6, 8, 9, 7, 5, 2>>,
       <<5, 9, 3, 4, 6, 8, 2, 7, 1>>,
       <<4, 7, 2, 5, 1, 3, 6, 8, 9>>,
       <<6, 1, 8, 9, 7, 2, 4, 3, 5>>,
       <<7, 8, 6, 2, 3, 5, 9, 1, 4>>,
       <<1, 5, 4, 7, 9, 6, 8, 2, 3>>,
       <<2, 3, 9, 8, 4, 1, 5, 6, 7>> >>

SolvedGrid == [cell \in Cell |-> SolvedRows[Row(cell) + 1][Col(cell) + 1]]

(***************************************************************************)
(* SudokuGrid (sudoku_base.py)                                             *)
(***************************************************************************)
\* set(array): the values of a view, without multiplicity
SetOf(view) == {view[k] : k \in DOMAIN view}

get_value(mem, self, cell) == mem[self.inner_grid][cell]

get_row(mem, self, i) == [j \in 1..GridSize |-> mem[self.inner_grid][<<i, j - 1>>]]

get_column(mem, self, i) == [j \in 1..GridSize |-> mem[self.inner_grid][<<j - 1, i>>]]

\* the 3x3 square of a cell, flattened row by row
get_square(mem, self, cell) ==
    LET starting_row == (Row(cell) \div SquareSize) * SquareSize
        starting_col == (Col(cell) \div SquareSize) * SquareSize
    IN  [k \in 1..(SquareSize * SquareSize) |->
            mem[self.inner_grid][<<starting_row + ((k - 1) \div SquareSize),
                                   starting_col + ((k - 1) % SquareSize)>>]]

\* is_full that finds every grid incomplete
is_full_never(mem, self) == FALSE

is_full(mem, self) ==
    \A cell \in Cell : mem[self.inner_grid][cell] # self.empty_cell_marker

\* SudokuGrid.set_value: [raised, arrays]
SudokuGrid_set_value(mem, self, cell, val, overwrite) ==
    IF overwrite /\ mem[self.inner_grid][cell] # self.empty_cell_marker
    THEN [raised |-> "ValueError", arrays |-> mem]
    ELSE IF ~(1 <= val /\ val <= 9)
    THEN [raised |-> "ValueError", arrays |-> mem]
    ELSE [raised |-> "none",
          arrays |-> [mem EXCEPT ![self.inner_grid][cell] = val]]

\* SudokuGrid.empty_cell that writes the default marker, whatever the marker
\* of the grid is
SudokuGrid_empty_cell_default_marker(mem, self, cell) ==
    [mem EXCEPT ![self.inner_grid][cell] = DefaultMarker]

\* SudokuGrid.empty_cell that clears the whole row of the cell
SudokuGrid_empty_cell_row(mem, self, cell) ==
    [mem EXCEPT ![self.inner_grid] =
        [c \in Cell |-> IF Row(c) = Row(cell) THEN self.empty_cell_marker ELSE @[c]]]

\* SudokuGrid.empty_cell that writes nothing
SudokuGrid_empty_cell_kept(mem, self, cell) == mem

\* SudokuGrid.empty_cell: the heap after the write
SudokuGrid_empty_cell(mem, self, cell) ==
    [mem EXCEPT ![self.inner_grid][cell] = self.empty_cell_marker]

\* get_inner_grid_copy that hands out the array itself
get_inner_grid_copy_shared(mem, self) ==
    [arrays |-> mem, ref |-> self.inner_grid]

\* SudokuGrid.get_inner_grid_copy: deepcopy allocates a new array
get_inner_grid_copy(mem, self) ==
    [arrays |-> Append(mem, mem[self.inner_grid]), ref |-> Len(mem) + 1]

(***************************************************************************)
(* ConstraintPropagationSudokuGrid (sudoku_cp.py)                          *)
(***************************************************************************)
calculate_cell_domain(mem, self, cell) ==
    LET maximum_domain == Digits
        row_domain == SetOf(get_row(mem, self, Row(cell)))
        available_on_row == maximum_domain \ row_domain
        col_domain == SetOf(get_column(mem, self, Col(cell)))
        available_on_col == maximum_domain \ col_domain
        square_domain == SetOf(get_square(mem, self, cell))
        available_on_square == maximum_domain \ square_domain
    IN  available_on_row \cap available_on_square \cap available_on_col

\* ConstraintPropagationSudokuGrid.__init__ on the array at starting_grid
\* (the array is kept, not copied)
CP_init(mem, starting_grid, empty_cell_marker) ==
    LET base == [inner_grid |-> starting_grid,
                 empty_cell_marker |-> empty_cell_marker]
    IN  [inner_grid |-> starting_grid,
         empty_cell_marker |-> empty_cell_marker,
         cell_domains |-> [cell \in Cell |-> calculate_cell_domain(mem, base, cell)],
         affected_cells_cache |-> << >>]

\* from_sudoku_grid: [arrays, grid]
from_sudoku_grid(mem, grid) ==
    LET copy == get_inner_grid_copy(mem, grid)
    IN  [arrays |-> copy.arrays,
         grid |-> CP_init(copy.arrays, copy.ref, grid.empty_cell_marker)]

\* affected_cells_of without the cells of the 3x3 square
affected_cells_row_col(cell_to_update) ==
    {<<Row(cell_to_update), i>> : i \in Indices} \cup
    {<<i, Col(cell_to_update)>> : i \in Indices}

\* the set _get_affected_cells computes on a cache miss
affected_cells_of(cell_to_update) ==
    LET row_cells == {<<Row(cell_to_update), i>> : i \in Indices}
        col_cells == {<<i, Col(cell_to_update)>> : i \in Indices}
        square_starting_row == (Row(cell_to_update) \div SquareSize) * SquareSize
        square_starting_col == (Col(cell_to_update) \div SquareSize) * SquareSize
        square_cells ==
            {<<i, j>> : i \in square_starting_row..(square_starting_row + SquareSize - 1),
                        j \in square_starting_col..(square_starting_col + SquareSize - 1)}
    IN  row_cells \cup col_cells \cup square_cells

\* _get_affected_cells: [cells, cache]
get_affected_cells(self, cell_to_update) ==
    IF cell_to_update \in DOMAIN self.affected_cells_cache
    THEN [cells |-> self.affected_cells_cache[cell_to_update],
          cache |-> self.affected_cells_cache]
    ELSE LET affected_cells == affected_cells_of(cell_to_update)
         IN  [cells |-> affected_cells,
              cache |-> [k \in DOMAIN self.affected_cells_cache \cup {cell_to_update} |->
                            IF k = cell_to_update THEN affected_cells
                            ELSE self.affected_cells_cache[k]]]

\* remove_from_affected_domains that gives the affected cells every other
\* sudoku number
remove_from_affected_domains_refill(self, val, cell_to_update) ==
    LET got == get_affected_cells(self, cell_to_update)
    IN  [self EXCEPT
            !.affected_cells_cache = got.cache,
            !.cell_domains = [c \in Cell |->
                IF c \in got.cells THEN Digits \ {val}
                ELSE self.cell_domains[c]]]

\* remove_from_affected_domains that removes nothing
remove_from_affected_domains_none(self, val, cell_to_update) ==
    [self EXCEPT !.affected_cells_cache = get_affected_cells(self, cell_to_update).cache]

\* _remove_from_affected_domains: the object afterwards
\* (remove is guarded by the membership test, so KeyError cannot be raised)
remove_from_affected_domains(self, val, cell_to_update) ==
    LET got == get_affected_cells(self, cell_to_update)
    IN  [self EXCEPT
            !.affected_cells_cache = got.cache,
            !.cell_domains = [c \in Cell |->
                IF c \in got.cells THEN self.cell_domains[c] \ {val}
                ELSE self.cell_domains[c]]]

\* recalculate_affected_domains that leaves the domains as they were
recalculate_skipped(mem, self, cell_to_update) ==
    [self EXCEPT !.affected_cells_cache = get_affected_cells(self, cell_to_update).cache]

\* _recalculate_affected_domains: the object afterwards
recalculate_affected_domains(mem, self, cell_to_update) ==
    LET got == get_affected_cells(self, cell_to_update)
    IN  [self EXCEPT
            !.affected_cells_cache = got.cache,
            !.cell_domains = [c \in Cell |->
                IF c \in got.cells THEN calculate_cell_domain(mem, self, c)
                ELSE self.cell_domains[c]]]

\* ConstraintPropagationSudokuGrid.empty_cell: [arrays, grid]
CP_empty_cell(mem, self, cell) ==
    LET previous_value == get_value(mem, self, cell)
        mem1 == SudokuGrid_empty_cell(mem, self, cell)
    IN  IF previous_value # self.empty_cell_marker
        THEN [arrays |-> mem1, grid |-> recalculate_affected_domains(mem1, self, cell)]
        ELSE [arrays |-> mem1, grid |-> self]

\* in_domain that accepts every sudoku number
in_domain_any_digit(self, cell, val) == val \in Digits

\* the legality gate of ConstraintPropagationSudokuGrid.set_value
in_domain(self, cell, val) == val \in self.cell_domains[cell]

\* set_value that updates the domains before the write of the base class
CP_set_value_removes_first(mem, self, cell, val, overwrite) ==
    IF ~in_domain(self, cell, val)
    THEN [raised |-> "NotInDomainException", arrays |-> mem, grid |-> self]
    ELSE LET emptied == IF ~overwrite THEN CP_empty_cell(mem, self, cell)
                        ELSE [arrays |-> mem, grid |-> self]
             removed == remove_from_affected_domains(emptied.grid, val, cell)
             written == SudokuGrid_set_value(emptied.arrays, emptied.grid,
                                             cell, val, overwrite)
         IN  [raised |-> written.raised, arrays |-> written.arrays, grid |-> removed]

\* ConstraintPropagationSudokuGrid.set_value: [raised, arrays, grid]
CP_set_value(mem, self, cell, val, overwrite) ==
    IF ~in_domain(self, cell, val)
    THEN [raised |-> "NotInDomainException", arrays |-> mem, grid |-> self]
    ELSE LET emptied == IF ~overwrite THEN CP_empty_cell(mem, self, cell)
                        ELSE [arrays |-> mem, grid |-> self]
             written == SudokuGrid_set_value(emptied.arrays, emptied.grid,
                                             cell, val, overwrite)
         IN  IF written.raised # "none"
             THEN [raised |-> written.raised, arrays |-> emptied.arrays,
                   grid |-> emptied.grid]
             ELSE [raised |-> "none", arrays |-> written.arrays,
                   grid |-> remove_from_affected_domains(emptied.grid, val, cell)]

get_domain(self, cell) == self.cell_domains[cell]

\* position of a cell in the insertion order of _cell_domains (row by row)
ScanIndex(cell) == Row(cell) * GridSize + Col(cell)

\* get_minimum_domain_empty_cell that takes the first empty cell of the scan
first_empty_cell(mem, self) ==
    LET empty_cells == {c \in Cell : get_value(mem, self, c) = self.empty_cell_marker}
    IN  IF empty_cells = {}
        THEN [cell |-> None, domain |-> None]
        ELSE LET min_cell == CHOOSE c \in empty_cells :
                     \A d \in empty_cells : ScanIndex(c) <= ScanIndex(d)
             IN  [cell |-> min_cell, domain |-> self.cell_domains[min_cell]]

\* get_minimum_domain_empty_cell that keeps the last minimum of the scan
minimum_domain_last_in_scan(mem, self) ==
    LET empty_cells == {c \in Cell : get_value(mem, self, c) = self.empty_cell_marker}
    IN  IF empty_cells = {}
        THEN [cell |-> None, domain |-> None]
        ELSE LET min_cell == CHOOSE c \in empty_cells :
                     \A d \in empty_cells :
                         \/ Cardinality(self.cell_domains[c]) < Cardinality(self.cell_domains[d])
                         \/ /\ Cardinality(self.cell_domains[c]) = Cardinality(self.cell_domains[d])
                            /\ ScanIndex(c) >= ScanIndex(d)
             IN  [cell |-> min_cell, domain |-> self.cell_domains[min_cell]]

\* get_minimum_domain_empty_cell that looks at every cell, empty or not
minimum_domain_any_cell(mem, self) ==
    LET min_cell == CHOOSE c \in Cell :
            \A d \in Cell :
                \/ Cardinality(self.cell_domains[c]) < Cardinality(self.cell_domains[d])
                \/ /\ Cardinality(self.cell_domains[c]) = Cardinality(self.cell_domains[d])
                   /\ ScanIndex(c) <= ScanIndex(d)
    IN  [cell |-> min_cell, domain |-> self.cell_domains[min_cell]]

\* get_minimum_domain_empty_cell: [cell, domain]; min() keeps the first minimum
get_minimum_domain_empty_cell(mem, self) ==
    LET empty_cells == {c \in Cell : get_value(mem, self, c) = self.empty_cell_marker}
    IN  IF empty_cells = {}
        THEN [cell |-> None, domain |-> None]
        ELSE LET min_cell == CHOOSE c \in empty_cells :
                     \A d \in empty_cells :
                         \/ Cardinality(self.cell_domains[c]) < Cardinality(self.cell_domains[d])
                         \/ /\ Cardinality(self.cell_domains[c]) = Cardinality(self.cell_domains[d])
                            /\ ScanIndex(c) <= ScanIndex(d)
             IN  [cell |-> min_cell, domain |-> self.cell_domains[min_cell]]

(***************************************************************************)
(* Solution checks (solvers/utils.py)                                      *)
(***************************************************************************)
\* get_duplicates: the values np.unique counts more than once
get_duplicates(array) ==
    {v \in SetOf(array) : Cardinality({k \in DOMAIN array : array[k] = v}) > 1}

\* check_no_sudoku_duplicates that counts every repeated value
check_no_duplicates_at_all(array) == get_duplicates(array) = {}

check_no_sudoku_duplicates(array) ==
    ~(\E v \in get_duplicates(array) : v \in 1..9)

is_grid_valid(mem, grid) ==
    /\ \A i \in 0..8 :
           /\ check_no_sudoku_duplicates(get_row(mem, grid, i))
           /\ check_no_sudoku_duplicates(get_column(mem, grid, i))
    /\ \A i \in 0..2 : \A j \in 0..2 :
           check_no_sudoku_duplicates(get_square(mem, grid, <<i * 3, j * 3>>))

\* is_solution_correct that only looks for empty cells
is_solution_correct_full_only(mem, solution) == is_full(mem, solution)

is_solution_correct(mem, solution) ==
    is_full(mem, solution) /\ is_grid_valid(mem, solution)

(***************************************************************************)
(* Grids the model is started on                                           *)
(***************************************************************************)
MaxVal == 2

\* cells the grid operations are called on: two cells of the emptied region
\* and a filled cell below one of them
ActiveCells == {<<0, 0>>, <<0, 1>>, <<3, 1>>}
\* values the grid operations are called with (0 is no sudoku number)
ApiVals == 0..MaxVal

\* the solved grid with the row, the column and the square of (0, 0) emptied
RegionPuzzle(marker) ==
    [cell \in Cell |->
        IF Row(cell) = 0 \/ Col(cell) = 0 \/ (Row(cell) < SquareSize /\ Col(cell) < SquareSize)
        THEN marker ELSE SolvedGrid[cell]]

\* one cell overwritten: a value that is neither a digit nor the marker,
\* or a digit that repeats in its row
DefectCells == {<<3, 1>>}
DefectVals == {0, 5}

GridInputs(marker) ==
    {RegionPuzzle(marker)} \cup
    {[RegionPuzzle(marker) EXCEPT ![d] = x] :
        d \in DefectCells, x \in IF marker = DefaultMarker THEN DefectVals ELSE {}}

NoCall == [op |-> "init", cell |-> None, val |-> 0, overwrite |-> FALSE, raised |-> "none"]

(***************************************************************************)
(* Specification of the grid: a ConstraintPropagationSudokuGrid is built   *)
(* on an array and set_value / empty_cell are called on it in any order    *)
(***************************************************************************)
Init ==
    \E marker \in Markers : \E starting_grid \in GridInputs(marker) :
        /\ arrays = <<starting_grid>>
        /\ sudoku = [inner_grid |-> 1, empty_cell_marker |-> marker]
        /\ cp_grid = CP_init(<<starting_grid>>, 1, marker)
        /\ last_call = NoCall
        /\ pc = "api"
        /\ stack = << >>
        /\ ret = "none"
        /\ result = "none"
        /\ sudoku_before = starting_grid

SetValue(cell, val, overwrite) ==
    /\ pc = "api"
    /\ \E r \in {CP_set_value(arrays, cp_grid, cell, val, overwrite)} :
           /\ arrays' = r.arrays
           /\ cp_grid' = r.grid
           /\ last_call' = [op |-> "set_value", cell |-> cell, val |-> val,
                            overwrite |-> overwrite, raised |-> r.raised]
    /\ UNCHANGED <<sudoku, pc, stack, ret, result, sudoku_before>>

EmptyCell(cell) ==
    /\ pc = "api"
    /\ \E r \in {CP_empty_cell(arrays, cp_grid, cell)} :
           /\ arrays' = r.arrays
           /\ cp_grid' = r.grid
           /\ last_call' = [op |-> "empty_cell", cell |-> cell, val |-> 0,
                            overwrite |-> FALSE, raised |-> "none"]
    /\ UNCHANGED <<sudoku, pc, stack, ret, result, sudoku_before>>

Next ==
    \/ \E cell \in ActiveCells, val \in ApiVals, overwrite \in BOOLEAN :
           SetValue(cell, val, overwrite)
    \/ \E cell \in ActiveCells : EmptyCell(cell)

Spec == Init /\ [][Next]_vars

(***************************************************************************)
(* Specification of the solver: bt_cp_sudoku_solver(sudoku) is called once *)
(* on a grid; each step of solver_aux is an action.  The values of a       *)
(* domain are tried in any order.                                          *)
(***************************************************************************)
MaxHoles == 4

\* cells emptied in the solved grid, in this order
HoleList == << <<0, 3>>, <<0, 6>>, <<1, 3>>, <<1, 6>>, <<0, 4>>, <<4, 3>>, <<4, 4>> >>

Puzzle(k, marker) ==
    [cell \in Cell |->
        IF \E h \in 1..k : HoleList[h] = cell THEN marker ELSE SolvedGrid[cell]]

\* one cell overwritten with any of these values
SolverDefectCells == {<<0, 3>>, <<8, 8>>}
SolverDefectVals == {0, 3, 7}

\* a puzzle with one solution that no order of the values solves without
\* backtracking: the solved grid with these cells emptied
DeepHoles ==
    {<<0, 1>>, <<0, 3>>, <<0, 8>>, <<1, 1>>, <<1, 5>>, <<1, 6>>, <<2, 0>>,
     <<2, 2>>, <<2, 3>>, <<2, 5>>, <<2, 6>>, <<2, 8>>, <<3, 0>>, <<3, 1>>,
     <<3, 8>>, <<4, 1>>, <<4, 6>>, <<4, 7>>, <<5, 1>>, <<5, 2>>, <<5, 4>>,
     <<5, 7>>, <<6, 0>>, <<6, 1>>, <<6, 2>>, <<6, 7>>, <<7, 0>>, <<7, 4>>,
     <<7, 5>>, <<7, 6>>, <<7, 7>>, <<8, 0>>, <<8, 1>>, <<8, 7>>, <<8, 8>>}

DeepPuzzle(marker) ==
    [cell \in Cell |-> IF cell \in DeepHoles THEN marker ELSE SolvedGrid[cell]]

\* a grid without conflict that has no completion: the 9 of row 2, of
\* column 0 and of the first square is taken out and put on (2, 0)
BlockedHoles == {<<0, 5>>, <<1, 0>>, <<1, 3>>, <<2, 1>>, <<2, 5>>}

BlockedPuzzle(marker) ==
    [cell \in Cell |->
        IF cell \in BlockedHoles THEN marker
        ELSE IF cell = <<2, 0>> THEN 9 ELSE SolvedGrid[cell]]

SolverInputs(marker) ==
    {Puzzle(k, marker) : k \in 0..MaxHoles} \cup
    {[Puzzle(k, marker) EXCEPT ![d] = x] :
        k \in 0..MaxHoles, d \in SolverDefectCells, x \in SolverDefectVals} \cup
    {DeepPuzzle(marker), BlockedPuzzle(marker)}

NoGrid == [inner_grid |-> 0, empty_cell_marker |-> 0,
           cell_domains |-> << >>, affected_cells_cache |-> << >>]

\* a solver_aux call: its arguments, the values the for loop has not tried
\* yet, and whether its entry checks are passed.  entry_grid and
\* entry_domains are no program state: they record the contents of the grid
\* and the domains at the moment of the call, for the properties that
\* compare the state at a return with the state at the call.
Frame(cell, domain, mem, grid) ==
    [current_cell |-> cell, current_domain |-> domain,
     remaining |-> domain, at |-> "entry",
     entry_grid |-> mem[grid.inner_grid], entry_domains |-> grid.cell_domains]

Top == stack[Len(stack)]
Pop == SubSeq(stack, 1, Len(stack) - 1)

SolverInit ==
    \E marker \in Markers : \E starting_grid \in SolverInputs(marker) :
        /\ arrays = <<starting_grid>>
        /\ sudoku = [inner_grid |-> 1, empty_cell_marker |-> marker]
        /\ cp_grid = NoGrid
        /\ last_call = NoCall
        /\ pc = "call"
        /\ stack = << >>
        /\ ret = "none"
        /\ result = "none"
        /\ sudoku_before = starting_grid

\* bt_cp.py 68-77: build the working grid and make the first solver_aux call
SolverCall ==
    /\ pc = "call"
    /\ \E built \in {from_sudoku_grid(arrays, sudoku)} :
       \E start \in {get_minimum_domain_empty_cell(built.arrays, built.grid)} :
           /\ arrays' = built.arrays
           /\ cp_grid' = built.grid
           /\ stack' = <<Frame(start.cell, start.domain, built.arrays, built.grid)>>
    /\ pc' = "aux"
    /\ UNCHANGED <<sudoku, last_call, ret, result, sudoku_before>>

\* AuxNoCell that calls solver_aux again instead of returning
AuxNoCell_recurses ==
    /\ pc = "aux" /\ stack # << >> /\ Top.at = "entry"
    /\ Top.current_cell = None
    /\ stack' = Append(stack, Frame(None, None, arrays, cp_grid))
    /\ UNCHANGED <<arrays, sudoku, cp_grid, last_call, pc, ret, result, sudoku_before>>

\* bt_cp.py 30-31: no empty cell is left
AuxNoCell ==
    /\ pc = "aux" /\ stack # << >> /\ Top.at = "entry"
    /\ Top.current_cell = None
    /\ ret' = IF is_solution_correct(arrays, cp_grid) THEN "True" ELSE "False"
    /\ stack' = Pop
    /\ UNCHANGED <<arrays, sudoku, cp_grid, last_call, pc, result, sudoku_before>>

\* AuxEmptyDomain that goes on to the loop instead of returning
AuxEmptyDomain_ignored ==
    /\ pc = "aux" /\ stack # << >> /\ Top.at = "entry"
    /\ Top.current_cell # None
    /\ Top.current_domain = {}
    /\ stack' = [stack EXCEPT ![Len(stack)].at = "loop"]
    /\ UNCHANGED <<arrays, sudoku, cp_grid, last_call, pc, ret, result, sudoku_before>>

\* bt_cp.py 33-36: the cell has no candidate
AuxEmptyDomain ==
    /\ pc = "aux" /\ stack # << >> /\ Top.at = "entry"
    /\ Top.current_cell # None
    /\ Top.current_domain = {}
    /\ ret' = "False"
    /\ stack' = Pop
    /\ UNCHANGED <<arrays, sudoku, cp_grid, last_call, pc, result, sudoku_before>>

\* bt_cp.py 39: the assertion before the loop
AuxAssert ==
    /\ pc = "aux" /\ stack # << >> /\ Top.at = "entry"
    /\ Top.current_cell # None
    /\ Top.current_domain # {}
    /\ IF get_value(arrays, cp_grid, Top.current_cell) = cp_grid.empty_cell_marker
       THEN /\ stack' = [stack EXCEPT ![Len(stack)].at = "loop"]
            /\ UNCHANGED <<pc, result>>
       ELSE /\ pc' = "done"
            /\ result' = "AssertionError"
            /\ UNCHANGED stack
    /\ UNCHANGED <<arrays, sudoku, cp_grid, last_call, ret, sudoku_before>>

\* AuxAttempt that leaves the placed value among the values to try
AuxAttempt_repeats ==
    /\ pc = "aux" /\ stack # << >> /\ Top.at = "loop"
    /\ ret \in {"none", "False"}
    /\ \E attempt \in Top.remaining :
       \E placed \in {CP_set_value(arrays, cp_grid, Top.current_cell, attempt, FALSE)} :
       \E next \in {get_minimum_domain_empty_cell(placed.arrays, placed.grid)} :
               /\ arrays' = placed.arrays
               /\ cp_grid' = placed.grid
               /\ IF placed.raised = "none"
                  THEN /\ stack' = Append(stack,
                              Frame(next.cell, next.domain, placed.arrays, placed.grid))
                       /\ UNCHANGED <<pc, result>>
                  ELSE /\ pc' = "done"
                       /\ result' = placed.raised
                       /\ UNCHANGED stack
    /\ ret' = "none"
    /\ UNCHANGED <<sudoku, last_call, sudoku_before>>

\* bt_cp.py 45-58: the next value of the loop is placed and solver_aux is
\* called on the next cell
AuxAttempt ==
    /\ pc = "aux" /\ stack # << >> /\ Top.at = "loop"
    /\ ret \in {"none", "False"}
    /\ \E attempt \in Top.remaining :
       \E placed \in {CP_set_value(arrays, cp_grid, Top.current_cell, attempt, FALSE)} :
       \E next \in {get_minimum_domain_empty_cell(placed.arrays, placed.grid)} :
               /\ arrays' = placed.arrays
               /\ cp_grid' = placed.grid
               /\ IF placed.raised = "none"
                  THEN /\ stack' = Append(
                              [stack EXCEPT ![Len(stack)].remaining = @ \ {attempt}],
                              Frame(next.cell, next.domain, placed.arrays, placed.grid))
                       /\ UNCHANGED <<pc, result>>
                  ELSE /\ pc' = "done"
                       /\ result' = placed.raised
                       /\ UNCHANGED stack
    /\ ret' = "none"
    /\ UNCHANGED <<sudoku, last_call, sudoku_before>>

\* AuxSolved that treats the success of the nested call as a failure
AuxSolved_continues ==
    /\ pc = "aux" /\ stack # << >> /\ Top.at = "loop"
    /\ ret = "True"
    /\ ret' = "False"
    /\ UNCHANGED <<arrays, sudoku, cp_grid, last_call, pc, stack, result, sudoku_before>>

\* bt_cp.py 60-61: the nested call succeeded
AuxSolved ==
    /\ pc = "aux" /\ stack # << >> /\ Top.at = "loop"
    /\ ret = "True"
    /\ stack' = Pop
    /\ UNCHANGED <<arrays, sudoku, cp_grid, last_call, pc, ret, result, sudoku_before>>

\* AuxExhausted that starts the loop over instead of returning
AuxExhausted_restart ==
    /\ pc = "aux" /\ stack # << >> /\ Top.at = "loop"
    /\ ret \in {"none", "False"}
    /\ Top.remaining = {}
    /\ \E emptied \in {CP_empty_cell(arrays, cp_grid, Top.current_cell)} :
           /\ arrays' = emptied.arrays
           /\ cp_grid' = emptied.grid
    /\ ret' = "none"
    /\ stack' = [stack EXCEPT ![Len(stack)].remaining = Top.current_domain]
    /\ UNCHANGED <<sudoku, last_call, pc, result, sudoku_before>>

\* bt_cp.py 63-66: every value failed; the cell is emptied again
AuxExhausted ==
    /\ pc = "aux" /\ stack # << >> /\ Top.at = "loop"
    /\ ret \in {"none", "False"}
    /\ Top.remaining = {}
    /\ \E emptied \in {CP_empty_cell(arrays, cp_grid, Top.current_cell)} :
           /\ arrays' = emptied.arrays
           /\ cp_grid' = emptied.grid
    /\ ret' = "False"
    /\ stack' = Pop
    /\ UNCHANGED <<sudoku, last_call, pc, result, sudoku_before>>

\* bt_cp.py 79-86: the final check and the return value
SolverReturn ==
    /\ pc = "aux" /\ stack = << >>
    /\ result' = IF is_solution_correct(arrays, cp_grid) /\ ret = "True"
                 THEN "solution" ELSE "None"
    /\ pc' = "done"
    /\ UNCHANGED <<arrays, sudoku, cp_grid, last_call, stack, ret, sudoku_before>>

SolverNext ==
    \/ SolverCall
    \/ AuxNoCell
    \/ AuxEmptyDomain
    \/ AuxAssert
    \/ AuxAttempt
    \/ AuxSolved
    \/ AuxExhausted
    \/ SolverReturn

SolverSpec == SolverInit /\ [][SolverNext]_vars

\* the call is one thread of control: the interpreter runs it to its end
FairSolverSpec == SolverSpec /\ WF_vars(SolverNext)

(***************************************************************************)
(* Vocabulary of the properties                                            *)
(***************************************************************************)
\* two cells share a row, a column or a 3x3 box (a cell shares them with itself)
SharesUnit(c, p) ==
    \/ Row(c) = Row(p)
    \/ Col(c) = Col(p)
    \/ /\ Row(c) \div 3 = Row(p) \div 3
       /\ Col(c) \div 3 = Col(p) \div 3

UnitPeersOf == [c \in Cell |-> {p \in Cell : SharesUnit(c, p)}]
UnitPeers(c) == UnitPeersOf[c]

\* the contents of the grid under work
Grid == arrays[cp_grid.inner_grid]

IsEmpty(c) == Grid[c] = cp_grid.empty_cell_marker

\* the values present in the row, the column and the box of a cell
UnitValues(c) == {Grid[p] : p \in UnitPeers(c)}

\* no two cells sharing a row, a column or a box hold the same digit
NoConflictIn(g) ==
    \A c \in Cell :
        g[c] \in 1..9 => \A p \in UnitPeers(c) \ {c} : g[p] # g[c]

\* a full grid of digits without a repeated digit in a row, column or box
ValidFull(g) == (\A c \in Cell : g[c] \in 1..9) /\ NoConflictIn(g)

\* every way of filling the cells of holes in g with digits that gives a
\* valid full grid (a digit held by a cell of the same row, column or box
\* can never be part of one, so it is not tried)
RECURSIVE CompletionsFrom(_, _)
CompletionsFrom(g, holes) ==
    IF holes = {}
    THEN IF ValidFull(g) THEN {g} ELSE {}
    ELSE LET h == CHOOSE c \in holes :
                      \A d \in holes :
                          Cardinality((1..9) \ {g[p] : p \in UnitPeers(c)})
                              <= Cardinality((1..9) \ {g[p] : p \in UnitPeers(d)})
         IN  UNION {CompletionsFrom([g EXCEPT ![h] = v], holes \ {h}) :
                        v \in (1..9) \ {g[p] : p \in UnitPeers(h)}}

\* the valid completions of the grid the solver was called on
Completions ==
    CompletionsFrom(sudoku_before,
                    {c \in Cell : sudoku_before[c] = sudoku.empty_cell_marker})

\* cells the search has written at least once (their peer set is cached)
Touched == DOMAIN cp_grid.affected_cells_cache

(***************************************************************************)
(* Properties of the grid                                                  *)
(***************************************************************************)
\* C1: in every state reached by set_value and empty_cell calls, the domain
\* of every empty cell is {1..9} minus the digits present in its row, its
\* column and its box.
C1_DomainCorrectness ==
    \A c \in Cell :
        IsEmpty(c) => get_domain(cp_grid, c) = (1..9) \ UnitValues(c)

\* C1 witness: a filled cell has just been emptied and a cell sharing a unit
\* with it is empty and has candidates left.
C1_Witness ==
    /\ last_call.op = "empty_cell"
    /\ \E c \in UnitPeers(last_call.cell) :
           /\ c # last_call.cell
           /\ IsEmpty(c)
           /\ get_domain(cp_grid, c) # {}
    /\ \E c \in ActiveCells : ~IsEmpty(c)

\* C2: the digit held by a non-empty cell is in the domain of no cell that
\* shares its row, column or box, the cell itself included.
C2_ValueNotInPeerDomains ==
    \A c \in Cell :
        ~IsEmpty(c) => \A p \in UnitPeers(c) : Grid[c] \notin get_domain(cp_grid, p)

\* C2 witness: a digit has just been written next to empty cells whose
\* domains are not empty.
C2_Witness ==
    /\ last_call.op = "set_value"
    /\ last_call.raised = "none"
    /\ \E p \in UnitPeers(last_call.cell) :
           /\ IsEmpty(p)
           /\ get_domain(cp_grid, p) # {}
           /\ Row(p) # Row(last_call.cell)
           /\ Col(p) # Col(last_call.cell)

\* C10: set_value raises NotInDomainException exactly when the value is not
\* in the cell's domain at the call; and once set_value(c, v) has succeeded,
\* set_value(p, v) raises it on every other cell p of c's row, column or box.
C10_NotInDomainExactly ==
    [][LET cell == last_call'.cell
           val == last_call'.val
       IN  (last_call'.op = "set_value" /\ SetValue(cell, val, last_call'.overwrite)) =>
               /\ (last_call'.raised = "NotInDomainException")
                      <=> (val \notin get_domain(cp_grid, cell))
               /\ last_call'.raised = "none" =>
                      \A p \in UnitPeers(cell) \ {cell}, again \in BOOLEAN :
                          CP_set_value(arrays', cp_grid', p, val, again).raised
                              = "NotInDomainException"]_vars

\* C10 witness: a digit was refused on a cell because a cell of its row,
\* column or box holds it after an earlier successful set_value.
C10_Witness ==
    /\ last_call.op = "set_value"
    /\ last_call.raised = "NotInDomainException"
    /\ last_call.val \in 1..9
    /\ \E p \in UnitPeers(last_call.cell) \cap ActiveCells :
           /\ p # last_call.cell
           /\ Grid[p] = last_call.val
           /\ sudoku_before[p] # last_call.val

(***************************************************************************)
(* Properties of the solver                                                *)
(***************************************************************************)
\* C3: when the filled cells of the input hold no conflict, no state of the
\* search (after a placement, after a clear, at any depth) has two cells of
\* one row, column or box holding the same digit.
C3_NoConflictDuringSearch ==
    (pc \in {"aux", "done"} /\ NoConflictIn(sudoku_before)) => NoConflictIn(Grid)

\* C3 witness: on a conflict-free input, a cell the search had filled has
\* been cleared again while cells placed earlier are still filled.
C3_Witness ==
    /\ pc = "aux"
    /\ NoConflictIn(sudoku_before)
    /\ ret = "False"
    /\ \E c \in Touched : IsEmpty(c)
    /\ \E c \in Touched : ~IsEmpty(c)

\* C4: whenever the solver reports success, the returned grid has no empty
\* cell, every entry is a digit 1..9 and no row, column or box repeats a
\* digit.
C4_SuccessIsValidFullGrid ==
    (pc = "done" /\ result = "solution") => ValidFull(Grid)

\* C5: on an input with exactly one valid completion the solver reports
\* success and the returned grid is that completion.
C5_UniqueSolutionReturned ==
    (pc = "done" /\ Cardinality(Completions) = 1) =>
        /\ result = "solution"
        /\ Completions = {Grid}

\* C5 witness: a puzzle with one completion has been solved after the search
\* had to take back a placement.
C5_Witness ==
    /\ pc = "done"
    /\ result = "solution"
    /\ Cardinality(Completions) = 1
    /\ \E c \in Touched : sudoku_before[c] = sudoku.empty_cell_marker
    /\ sudoku_before = DeepPuzzle(sudoku.empty_cell_marker)

\* C6: the solver returns None only if the input has no valid completion,
\* and reports success whenever it has one.
C6_NeverMissesSolution ==
    pc = "done" =>
        /\ result = "None" => Completions = {}
        /\ Completions # {} => result = "solution"

\* C6 witness: the search ended without result on an input that is free of
\* conflicts and has empty cells, after placing values.
C6_Witness ==
    /\ pc = "done"
    /\ result = "None"
    /\ NoConflictIn(sudoku_before)
    /\ Touched # {}
    /\ \E c \in Cell : sudoku_before[c] = sudoku.empty_cell_marker

\* C7: on an input whose filled cells hold a conflicting pair the solver
\* returns None: no grid, and no exception.
C7_ConflictingInputFails ==
    (pc = "done" /\ ~NoConflictIn(sudoku_before)) => result = "None"

\* C7 witness: the solver has returned on a conflicting input after trying
\* placements.
C7_Witness ==
    /\ pc = "done"
    /\ ~NoConflictIn(sudoku_before)
    /\ \A c \in Cell : sudoku_before[c] \in 1..9 \/ sudoku_before[c] = sudoku.empty_cell_marker
    /\ Touched # {}

\* C8: every call of the solver eventually returns.
C8_SolverTerminates == <>(pc = "done")

\* C8 witness: the solver has returned after a search that placed values,
\* without finding a solution.
C8_Witness ==
    /\ pc = "done"
    /\ result = "None"
    /\ Cardinality(Touched) > 1

\* C9: the solver leaves the caller's grid as it was: the working grid is
\* built on an array of its own, and the caller's array is never written.
C9_CallerGridUntouched ==
    pc \in {"aux", "done"} =>
        /\ cp_grid.inner_grid # sudoku.inner_grid
        /\ arrays[sudoku.inner_grid] = sudoku_before

\* C9 witness: the solver has returned a solution that differs from the
\* input.
C9_Witness ==
    /\ pc = "done"
    /\ result = "solution"
    /\ Grid # sudoku_before

(***************************************************************************)
(* Contract of set_value and empty_cell                                    *)
(***************************************************************************)
\* C11: after a successful ConstraintPropagationSudokuGrid.set_value(c, v)
\* the cell c holds v and v is in the domain of no cell of c's row, column
\* or box, c itself included.
C11_SetValuePostcondition ==
    (last_call.op = "set_value" /\ last_call.raised = "none") =>
        /\ get_value(arrays, cp_grid, last_call.cell) = last_call.val
        /\ \A p \in UnitPeers(last_call.cell) :
               last_call.val \notin get_domain(cp_grid, p)

\* C11 witness: a digit was written with overwrite=False on top of another
\* cell's neighbourhood: a second cell of the row holds a different digit
\* and an empty cell of the box still has candidates.
C11_Witness ==
    /\ last_call.op = "set_value"
    /\ last_call.raised = "none"
    /\ ~last_call.overwrite
    /\ \E q \in ActiveCells \ {last_call.cell} :
           /\ Row(q) = Row(last_call.cell)
           /\ Grid[q] \in Digits \ {last_call.val}
    /\ \E p \in UnitPeers(last_call.cell) : IsEmpty(p) /\ get_domain(cp_grid, p) # {}

\* set_value(c, v) followed by empty_cell(c), from the current state
RoundTrip(c, v, overwrite) ==
    LET written == CP_set_value(arrays, cp_grid, c, v, overwrite)
    IN  [raised |-> written.raised,
         after |-> CP_empty_cell(written.arrays, written.grid, c)]

\* C12: in every reachable state, for every empty cell c and every v of its
\* domain, set_value(c, v) followed by empty_cell(c) succeeds and leaves the
\* domain of every cell of c's row, column and box, and the contents of the
\* grid, as they were before the set_value.
C12_WriteThenClearIsNoOp ==
    \A c \in Cell :
        IsEmpty(c) =>
            \A v \in get_domain(cp_grid, c), overwrite \in BOOLEAN :
                \A trip \in {RoundTrip(c, v, overwrite)} :
                    /\ trip.raised = "none"
                    /\ trip.after.arrays[cp_grid.inner_grid] = Grid
                    /\ \A p \in UnitPeers(c) :
                           get_domain(trip.after.grid, p) = get_domain(cp_grid, p)

\* C12 witness: a cell that was empty at the start has been written and then
\* cleared, and the grid and every domain are what they were at the start.
C12_Witness ==
    /\ last_call.op = "empty_cell"
    /\ last_call.cell \in Touched
    /\ sudoku_before[last_call.cell] = cp_grid.empty_cell_marker
    /\ Grid = sudoku_before
    /\ \E p \in UnitPeers(last_call.cell) \ {last_call.cell} :
           IsEmpty(p) /\ get_domain(cp_grid, p) # {}
    /\ \A p \in UnitPeers(last_call.cell) :
           get_domain(cp_grid, p) = calculate_cell_domain(arrays, cp_grid, p)

(***************************************************************************)
(* Specification of the base grid: a SudokuGrid (or a                      *)
(* ConstraintPropagationSudokuGrid) is constructed on an array, and        *)
(* SudokuGrid.set_value / empty_cell / get_value are called on it          *)
(***************************************************************************)
\* ndarray.shape of the arrays a grid is constructed on
Shapes == {<<9, 9>>, <<9, 8>>, <<8, 9>>, <<3, 3>>, <<9>>, << >>, <<9, 9, 2>>}

\* empty_cell_marker arguments of the constructor
CtorMarkers == Markers \cup {0, 1, 5, 9, 10}

\* SudokuGrid.__init__ on an array of this shape: the exception raised.
\* shape[0] and shape[1] are tuple items (IndexError when missing); "and"
\* does not look at shape[1] when shape[0] is not 9.
SudokuGrid_init(shape, empty_cell_marker) ==
    IF Len(shape) < 1 THEN "IndexError"
    ELSE IF shape[1] # 9 THEN "ValueError"
    ELSE IF Len(shape) < 2 THEN "IndexError"
    ELSE IF shape[2] # 9 THEN "ValueError"
    ELSE IF empty_cell_marker \in {1, 2, 3, 4, 5, 6, 7, 8, 9} THEN "ValueError"
    ELSE "none"

\* ConstraintPropagationSudokuGrid.__init__ on an array of this shape: the
\* exception raised.  On an array of more than two dimensions a row is made
\* of arrays, and set(row) raises TypeError (ndarray is unhashable).
CP_construct(shape, empty_cell_marker) ==
    IF SudokuGrid_init(shape, empty_cell_marker) # "none"
    THEN SudokuGrid_init(shape, empty_cell_marker)
    ELSE IF Len(shape) > 2 THEN "TypeError"
    ELSE "none"

\* self._inner_grid[row, col]: numpy takes an index of -9..-1 from the end,
\* and raises IndexError outside -9..8
SudokuGrid_get_value(mem, self, row, col) ==
    IF row \in (-GridSize)..(GridSize - 1) /\ col \in (-GridSize)..(GridSize - 1)
    THEN [raised |-> "none",
          value |-> mem[self.inner_grid][<<row % GridSize, col % GridSize>>]]
    ELSE [raised |-> "IndexError", value |-> 0]

\* cells and values of the calls
BaseCells == {<<0, 0>>, <<3, 1>>}
BaseVals == {0, 5, 10}
GetIndices == {-10, -1, 3, 9}

NoSudoku == [inner_grid |-> 0, empty_cell_marker |-> 0]

BaseInit ==
    \E marker \in Markers :
        /\ arrays = <<RegionPuzzle(marker)>>
        /\ sudoku = NoSudoku
        /\ cp_grid = NoGrid
        /\ last_call = NoCall
        /\ pc = "new"
        /\ stack = << >>
        /\ ret = "none"
        /\ result = "none"
        /\ sudoku_before = RegionPuzzle(marker)

\* cls(starting_grid=a, empty_cell_marker=marker) where a has this shape;
\* the array of shape (9, 9) is arrays[1]
Construct(cls, shape, marker) ==
    /\ pc = "new"
    /\ \E raised \in {IF cls = "SudokuGrid" THEN SudokuGrid_init(shape, marker)
                      ELSE CP_construct(shape, marker)} :
           /\ last_call' = [op |-> "__init__", cls |-> cls, shape |-> shape,
                            marker |-> marker, raised |-> raised]
           /\ IF raised # "none"
              THEN pc' = "failed" /\ UNCHANGED <<sudoku, cp_grid>>
              ELSE IF shape # <<9, 9>>
              THEN /\ pc' = "built"
                   /\ sudoku' = [inner_grid |-> 0, empty_cell_marker |-> marker]
                   /\ UNCHANGED cp_grid
              ELSE IF cls = "SudokuGrid"
              THEN /\ pc' = "base"
                   /\ sudoku' = [inner_grid |-> 1, empty_cell_marker |-> marker]
                   /\ UNCHANGED cp_grid
              ELSE /\ pc' = "built"
                   /\ cp_grid' = CP_init(arrays, 1, marker)
                   /\ UNCHANGED sudoku
    /\ UNCHANGED <<arrays, stack, ret, result, sudoku_before>>

BaseSetValue(cell, val, overwrite) ==
    /\ pc = "base"
    /\ \E r \in {SudokuGrid_set_value(arrays, sudoku, cell, val, overwrite)} :
           /\ arrays' = r.arrays
           /\ last_call' = [op |-> "SudokuGrid.set_value", cell |-> cell, val |-> val,
                            overwrite |-> overwrite, raised |-> r.raised,
                            previous |-> get_value(arrays, sudoku, cell)]
    /\ UNCHANGED <<sudoku, cp_grid, pc, stack, ret, result, sudoku_before>>

BaseEmptyCell(cell) ==
    /\ pc = "base"
    /\ arrays' = SudokuGrid_empty_cell(arrays, sudoku, cell)
    /\ last_call' = [op |-> "SudokuGrid.empty_cell", cell |-> cell,
                     raised |-> "none", previous |-> get_value(arrays, sudoku, cell)]
    /\ UNCHANGED <<sudoku, cp_grid, pc, stack, ret, result, sudoku_before>>

BaseGetValue(row, col) ==
    /\ pc = "base"
    /\ \E r \in {SudokuGrid_get_value(arrays, sudoku, row, col)} :
           last_call' = [op |-> "SudokuGrid.get_value", cell |-> <<row, col>>,
                         raised |-> r.raised, returned |-> r.value]
    /\ UNCHANGED <<arrays, sudoku, cp_grid, pc, stack, ret, result, sudoku_before>>

BaseNext ==
    \/ \E cls \in {"SudokuGrid", "ConstraintPropagationSudokuGrid"},
          shape \in Shapes, marker \in CtorMarkers :
           Construct(cls, shape, marker)
    \/ \E cell \in BaseCells, val \in BaseVals \cup {sudoku.empty_cell_marker},
          overwrite \in BOOLEAN :
           BaseSetValue(cell, val, overwrite)
    \/ \E cell \in BaseCells : BaseEmptyCell(cell)
    \/ \E row \in GetIndices, col \in GetIndices : BaseGetValue(row, col)

BaseSpec == BaseInit /\ [][BaseNext]_vars

\* the contents of the SudokuGrid's array
BaseGrid == arrays[sudoku.inner_grid]

(***************************************************************************)
(* Properties of the base grid                                             *)
(***************************************************************************)
\* C13: SudokuGrid.set_value on an empty cell accepts a value if and only if
\* it is a digit 1..9 or the grid's empty-cell marker: an accepted value is
\* in the cell afterwards (the marker leaves it empty), and a refused value
\* leaves the grid as it was.
C13_AcceptsDigitsAndMarker ==
    (last_call.op = "SudokuGrid.set_value" /\ last_call.previous = sudoku.empty_cell_marker) =>
        /\ (last_call.raised = "none")
               <=> (last_call.val \in Digits \cup {sudoku.empty_cell_marker})
        /\ BaseGrid[last_call.cell] =
               IF last_call.raised = "none" THEN last_call.val ELSE last_call.previous

\* C14: SudokuGrid.set_value of a digit on a cell that holds a digit fails
\* if and only if overwrite is False: with overwrite=False the cell keeps
\* its digit, with overwrite=True the new digit replaces it.
C14_OverwriteFlag ==
    (/\ last_call.op = "SudokuGrid.set_value"
     /\ last_call.previous \in Digits
     /\ last_call.val \in Digits) =>
        /\ (last_call.raised # "none") <=> ~last_call.overwrite
        /\ BaseGrid[last_call.cell] =
               IF last_call.overwrite THEN last_call.val ELSE last_call.previous

\* C15: SudokuGrid.get_value fails for every cell whose row or column is
\* outside 0..8, negative indices included.
C15_GetValueBoundsChecked ==
    (/\ last_call.op = "SudokuGrid.get_value"
     /\ \/ Row(last_call.cell) \notin Indices
        \/ Col(last_call.cell) \notin Indices) =>
        last_call.raised # "none"

\* C16: constructing a SudokuGrid or a ConstraintPropagationSudokuGrid fails
\* with an error, and produces no grid, whenever the empty-cell marker is
\* one of 1..9 or the array is not 9x9.
C16_ConstructionValidated ==
    (/\ last_call.op = "__init__"
     /\ \/ last_call.marker \in Digits
        \/ last_call.shape # <<GridSize, GridSize>>) =>
        /\ last_call.raised # "none"
        /\ pc = "failed"

(***************************************************************************)
(* Specification of the validity check: is_grid_valid is called on a       *)
(* SudokuGrid whose array is full, partial or empty, with up to two cells  *)
(* overwritten                                                             *)
(***************************************************************************)
\* the grid np.full((9, 9), marker) of the tests
EmptyGrid(marker) == [cell \in Cell |-> marker]

\* cells that are overwritten: (4, 4) shares only its row with (4, 7), only
\* its column with (7, 4) and only its square with (5, 5)
CheckCells == {<<4, 4>>, <<4, 7>>, <<7, 4>>, <<5, 5>>}
CheckVals(marker) == {marker, 0, 5}

CheckInputs(marker) ==
    {[[base EXCEPT ![d1] = x1] EXCEPT ![d2] = x2] :
        base \in {SolvedGrid, RegionPuzzle(marker), EmptyGrid(marker)},
        d1 \in CheckCells, d2 \in CheckCells,
        x1 \in CheckVals(marker), x2 \in CheckVals(marker)}

CheckInit ==
    \E marker \in Markers : \E starting_grid \in CheckInputs(marker) :
        /\ arrays = <<starting_grid>>
        /\ sudoku = [inner_grid |-> 1, empty_cell_marker |-> marker]
        /\ cp_grid = NoGrid
        /\ last_call = NoCall
        /\ pc = "check"
        /\ stack = << >>
        /\ ret = "none"
        /\ result = "none"
        /\ sudoku_before = starting_grid

\* ut.is_grid_valid(grid)
IsGridValid ==
    /\ pc = "check"
    /\ ret' = IF is_grid_valid(arrays, sudoku) THEN "True" ELSE "False"
    /\ pc' = "checked"
    /\ UNCHANGED <<arrays, sudoku, cp_grid, last_call, stack, result, sudoku_before>>

CheckNext == IsGridValid

CheckSpec == CheckInit /\ [][CheckNext]_vars

\* C17: is_grid_valid returns True if and only if no digit 1..9 is held by
\* two cells of one row, column or 3x3 box; repeated empty markers (and
\* other values outside 1..9) never make a grid invalid.
C17_IsGridValidIffNoRepeatedDigit ==
    pc = "checked" => ((ret = "True") <=> NoConflictIn(BaseGrid))

\* C17 witness: a partial grid with a digit twice in one row, in two
\* different squares, was found invalid.
C17_Witness ==
    /\ pc = "checked"
    /\ ret = "False"
    /\ \E c \in Cell : BaseGrid[c] = sudoku.empty_cell_marker
    /\ \E c \in Cell, p \in Cell :
           /\ Row(c) = Row(p)
           /\ Col(c) \div SquareSize # Col(p) \div SquareSize
           /\ BaseGrid[c] \in Digits
           /\ BaseGrid[c] = BaseGrid[p]

(***************************************************************************)
(* Properties of the choice of the next cell                               *)
(***************************************************************************)
EmptyCells == {c \in Cell : IsEmpty(c)}

\* C18: the pair get_minimum_domain_empty_cell returned to the solver is
\* (None, None) if and only if no cell holds the empty marker; otherwise
\* its cell is empty, its domain is the current domain of that cell, and no
\* empty cell has a smaller domain.  When one cell of a full valid grid is
\* emptied, it is that cell with the singleton of the removed digit.
C18_MinimumDomainEmptyCell ==
    (pc = "aux" /\ stack # << >> /\ Top.at = "entry") =>
        /\ (Top.current_cell = None) <=> (EmptyCells = {})
        /\ EmptyCells # {} =>
               /\ Top.current_cell \in EmptyCells
               /\ Top.current_domain = get_domain(cp_grid, Top.current_cell)
               /\ \A d \in EmptyCells :
                      Cardinality(get_domain(cp_grid, d)) >= Cardinality(Top.current_domain)
        /\ \A h \in Cell, v \in Digits :
               (EmptyCells = {h} /\ ValidFull([Grid EXCEPT ![h] = v])) =>
                   (Top.current_cell = h /\ Top.current_domain = {v})

\* C18 witness: the solved grid with one cell emptied: the call returned
\* that cell and the singleton of its digit.
C18_Witness ==
    /\ pc = "aux" /\ stack # << >> /\ Top.at = "entry"
    /\ \E h \in Cell :
           /\ EmptyCells = {h}
           /\ sudoku_before = [SolvedGrid EXCEPT ![h] = cp_grid.empty_cell_marker]
           /\ Top.current_cell = h
           /\ Top.current_domain = {SolvedGrid[h]}

\* the first empty cell, row by row, among those with the fewest candidates,
\* computed from the contents of a grid alone
FirstMinCell(g, marker) ==
    LET empties == {c \in Cell : g[c] = marker}
        size == [c \in empties |->
                    Cardinality((1..9) \ {g[p] : p \in UnitPeers(c)})]
    IN  CHOOSE c \in empties :
            \A d \in empties :
                \/ size[c] < size[d]
                \/ size[c] = size[d] /\ Row(c) * 9 + Col(c) <= Row(d) * 9 + Col(d)

\* C19: the cell get_minimum_domain_empty_cell returns depends on the
\* contents of the grid only, whatever set_value and empty_cell calls led to
\* them: it is the first empty cell, row by row, among those with the
\* fewest candidates.
C19_MinimumCellDependsOnGridOnly ==
    EmptyCells # {} =>
        get_minimum_domain_empty_cell(arrays, cp_grid).cell
            = FirstMinCell(Grid, cp_grid.empty_cell_marker)

\* C19 witness: after calls that wrote and cleared cells the grid has the
\* contents it started with, and several empty cells tie for the fewest
\* candidates.
C19_Witness ==
    /\ Touched # {}
    /\ last_call.op = "empty_cell"
    /\ Grid = sudoku_before
    /\ \E c \in EmptyCells, d \in EmptyCells :
           /\ c # d
           /\ get_domain(cp_grid, c) # get_domain(cp_grid, d)
           /\ \A e \in EmptyCells :
                  /\ Cardinality(get_domain(cp_grid, e)) >= Cardinality(get_domain(cp_grid, c))
                  /\ Cardinality(get_domain(cp_grid, e)) >= Cardinality(get_domain(cp_grid, d))

\* C20: on a full valid grid the solver makes no set_value and no
\* empty_cell call and no nested solver_aux call, and it returns a grid
\* equal to the input.
C20_FullGridSolvedImmediately ==
    [][ValidFull(sudoku_before) =>
           /\ ~AuxAttempt
           /\ ~AuxExhausted
           /\ Len(stack') <= 1
           /\ pc' = "done" =>
                  /\ result' = "solution"
                  /\ arrays'[cp_grid'.inner_grid] = sudoku_before]_vars

\* C20 witness: the solver has returned on a full valid grid.
C20_Witness ==
    /\ pc = "done"
    /\ ValidFull(sudoku_before)
    /\ result = "solution"
    /\ Touched = {}

(***************************************************************************)
(* SimulatedAnnealingSudokuGrid (sudoku_annealing.py)                      *)
(***************************************************************************)
\* remaining_numbers that offers every sudoku number
remaining_numbers_all(mem, self, row) == Digits

\* _initialize_rows_as_unique: the numbers a row does not hold yet
remaining_numbers(mem, self, row) == Digits \ SetOf(get_row(mem, self, row))

\* _initialize_rows_as_unique from (row, col) on: the heaps it can end with.
\* set.pop() takes any element.  pop() on an empty set (KeyError) gives no
\* heap; it cannot happen, since a row with e empty cells holds at most
\* 9 - e different digits.
RECURSIVE initialize_rows_as_unique(_, _, _, _, _)
initialize_rows_as_unique(mem, self, row, col, remaining) ==
    IF col > GridSize - 1
    THEN IF row = GridSize - 1 THEN {mem}
         ELSE initialize_rows_as_unique(mem, self, row + 1, 0,
                                        remaining_numbers(mem, self, row + 1))
    ELSE IF get_value(mem, self, <<row, col>>) = self.empty_cell_marker
    THEN UNION {initialize_rows_as_unique(
                    SudokuGrid_set_value(mem, self, <<row, col>>, to_set, FALSE).arrays,
                    self, row, col + 1, remaining \ {to_set}) :
                to_set \in remaining}
    ELSE initialize_rows_as_unique(mem, self, row, col + 1, remaining)

\* SimulatedAnnealingSudokuGrid.__init__ on the array at starting_grid: the
\* objects and heaps it can end with
Annealing_init(mem, starting_grid, empty_cell_marker) ==
    LET self == [inner_grid |-> starting_grid,
                 empty_cell_marker |-> empty_cell_marker,
                 starting_cells |->
                     {c \in Cell : mem[starting_grid][c] # empty_cell_marker}]
    IN  {[grid |-> self, arrays |-> filled] :
            filled \in initialize_rows_as_unique(mem, self, 0, 0,
                                                 remaining_numbers(mem, self, 0))}

\* SimulatedAnnealingSudokuGrid.from_sudoku_grid
Annealing_from_sudoku_grid(mem, grid) ==
    LET copy == get_inner_grid_copy(mem, grid)
    IN  Annealing_init(copy.arrays, copy.ref, grid.empty_cell_marker)

\* get_random_row_neighbors that draws among all the cells of the row
random_row_neighbors_any_cell(self) ==
    UNION {{<<rnd_row_idx, i>> : i \in Indices} \X {<<rnd_row_idx, i>> : i \in Indices} :
           rnd_row_idx \in Indices}

\* _get_random_row_neighbors: the pairs it can return.  The row is drawn
\* again until it has two cells or more outside starting_cells; the two
\* list indices are drawn independently and can be equal.
get_random_row_neighbors(self) ==
    UNION {LET valid_neighbors == {<<rnd_row_idx, i>> : i \in Indices} \ self.starting_cells
           IN  IF Cardinality(valid_neighbors) < 2 THEN {}
               ELSE valid_neighbors \X valid_neighbors :
           rnd_row_idx \in Indices}

\* swap_two_cells_same_row on the drawn pair: [raised, returned, arrays].
\* The method has no return statement: it returns None.
swap_two_cells_same_row(mem, self, cell_1, cell_2) ==
    LET val_1 == get_value(mem, self, cell_1)
        val_2 == get_value(mem, self, cell_2)
        first == SudokuGrid_set_value(mem, self, cell_1, val_2, FALSE)
        second == SudokuGrid_set_value(first.arrays, self, cell_2, val_1, FALSE)
    IN  IF first.raised # "none"
        THEN [raised |-> first.raised, returned |-> None, arrays |-> first.arrays]
        ELSE [raised |-> second.raised, returned |-> None, arrays |-> second.arrays]

\* np.sum(counts) over the values get_duplicates finds
RECURSIVE duplicates_sum(_, _)
duplicates_sum(array, duplicates) ==
    IF duplicates = {} THEN 0
    ELSE LET v == CHOOSE x \in duplicates : TRUE
         IN  Cardinality({k \in DOMAIN array : array[k] = v})
                 + duplicates_sum(array, duplicates \ {v})

get_collection_score(collection) ==
    duplicates_sum(collection, get_duplicates(collection))

RECURSIVE SumUpTo(_, _)
SumUpTo(f, n) == IF n < 0 THEN 0 ELSE f[n] + SumUpTo(f, n - 1)

\* SimulatedAnnealingSudokuGrid.get_score
get_score(mem, self) ==
    LET line_score == [i \in Indices |->
            get_collection_score(get_column(mem, self, i))
                + get_collection_score(get_row(mem, self, i))]
        square_score == [k \in Indices |->
            get_collection_score(
                get_square(mem, self, <<(k \div SquareSize) * SquareSize,
                                        (k % SquareSize) * SquareSize>>))]
    IN  SumUpTo(line_score, GridSize - 1) + SumUpTo(square_score, GridSize - 1)

(***************************************************************************)
(* Specification of the annealing grid: a SimulatedAnnealingSudokuGrid is  *)
(* built from a puzzle, then swap_two_cells_same_row and get_score are     *)
(* called on it                                                            *)
(***************************************************************************)
\* a filled cell of row 0 that repeats the digit of (0, 0)
RowRepeat(g) == [g EXCEPT ![<<0, 5>>] = g[<<0, 0>>]]

AnnealingInputs(marker) ==
    {Puzzle(k, marker) : k \in 0..MaxHoles} \cup
    {RowRepeat(Puzzle(k, marker)) : k \in 0..MaxHoles}

AnnealingInit ==
    \E marker \in Markers : \E starting_grid \in AnnealingInputs(marker) :
        /\ arrays = <<starting_grid>>
        /\ sudoku = [inner_grid |-> 1, empty_cell_marker |-> marker]
        /\ cp_grid = NoGrid
        /\ last_call = NoCall
        /\ pc = "annealing_new"
        /\ stack = << >>
        /\ ret = "none"
        /\ result = "none"
        /\ sudoku_before = starting_grid

\* ann_grid = SimulatedAnnealingSudokuGrid.from_sudoku_grid(grid=sudoku)
AnnealingConstruct ==
    /\ pc = "annealing_new"
    /\ \E built \in Annealing_from_sudoku_grid(arrays, sudoku) :
           /\ arrays' = built.arrays
           /\ sudoku' = built.grid
    /\ last_call' = [op |-> "from_sudoku_grid", raised |-> "none"]
    /\ pc' = "annealing"
    /\ UNCHANGED <<cp_grid, stack, ret, result, sudoku_before>>

\* ann_grid.swap_two_cells_same_row()
AnnealingSwap ==
    /\ pc = "annealing"
    /\ \E pair \in get_random_row_neighbors(sudoku) :
       \E r \in {swap_two_cells_same_row(arrays, sudoku, pair[1], pair[2])} :
           /\ arrays' = r.arrays
           /\ last_call' = [op |-> "swap_two_cells_same_row",
                            cell_1 |-> pair[1], cell_2 |-> pair[2],
                            val_1 |-> get_value(arrays, sudoku, pair[1]),
                            val_2 |-> get_value(arrays, sudoku, pair[2]),
                            raised |-> r.raised, returned |-> r.returned]
    /\ UNCHANGED <<sudoku, cp_grid, pc, stack, ret, result, sudoku_before>>

\* ann_grid.get_score()
AnnealingGetScore ==
    /\ pc = "annealing"
    /\ last_call' = [op |-> "get_score", raised |-> "none",
                     returned |-> get_score(arrays, sudoku)]
    /\ UNCHANGED <<arrays, sudoku, cp_grid, pc, stack, ret, result, sudoku_before>>

AnnealingNext ==
    \/ AnnealingConstruct
    \/ AnnealingSwap
    \/ AnnealingGetScore

AnnealingSpec == AnnealingInit /\ [][AnnealingNext]_vars

(***************************************************************************)
(* Properties of the annealing grid                                        *)
(***************************************************************************)
\* no digit is held by two cells of one row
NoRepeatInRows(g) ==
    \A c \in Cell, p \in Cell :
        (Row(c) = Row(p) /\ c # p /\ g[c] \in Digits) => g[c] # g[p]

\* C21: after a SimulatedAnnealingSudokuGrid is constructed from a puzzle
\* whose rows hold no repeated digit, no cell is empty, every row holds each
\* digit 1..9 exactly once, and every cell that was filled in the puzzle
\* has kept its value.
C21_RowsUniqueOnInit ==
    (last_call.op = "from_sudoku_grid" /\ NoRepeatInRows(sudoku_before)) =>
        /\ \A c \in Cell : BaseGrid[c] # sudoku.empty_cell_marker
        /\ \A i \in Indices, v \in Digits :
               Cardinality({j \in Indices : BaseGrid[<<i, j>>] = v}) = 1
        /\ \A c \in Cell :
               sudoku_before[c] # sudoku.empty_cell_marker => BaseGrid[c] = sudoku_before[c]

\* C21 witness: a grid was constructed from a puzzle with two empty cells in
\* each of two rows, and the cells were not filled with the digits of the
\* solved grid.
C21_Witness ==
    /\ last_call.op = "from_sudoku_grid"
    /\ NoRepeatInRows(sudoku_before)
    /\ \E i \in Indices, k \in Indices :
           /\ i # k
           /\ Cardinality({j \in Indices : sudoku_before[<<i, j>>] = sudoku.empty_cell_marker}) >= 2
           /\ Cardinality({j \in Indices : sudoku_before[<<k, j>>] = sudoku.empty_cell_marker}) >= 2
    /\ BaseGrid # SolvedGrid

\* C22: swap_two_cells_same_row returns the two cells it swapped; they are
\* of one row, and each holds afterwards the value the other held before.
C22_SwapReturnsSwappedCells ==
    last_call.op = "swap_two_cells_same_row" =>
        /\ last_call.raised = "none"
        /\ last_call.returned = <<last_call.cell_1, last_call.cell_2>>
        /\ Row(last_call.cell_1) = Row(last_call.cell_2)
        /\ BaseGrid[last_call.cell_1] = last_call.val_2
        /\ BaseGrid[last_call.cell_2] = last_call.val_1

\* the values held more than once in a set of cells, counted with their
\* multiplicity: the number of cells whose value another cell holds too
RepeatedIn(g, cells) ==
    Cardinality({c \in cells : \E p \in cells \ {c} : g[p] = g[c]})

\* C23: get_score is the sum, over the 9 columns and the 9 boxes, of the
\* occurrence counts of the values held more than once there; rows add
\* nothing.
C23_ScoreIsColumnsAndBoxes ==
    last_call.op = "get_score" =>
        last_call.returned =
            SumUpTo([i \in Indices |->
                        RepeatedIn(BaseGrid, {c \in Cell : Col(c) = i})
                        + RepeatedIn(BaseGrid,
                              {c \in Cell : /\ Row(c) \div 3 = i \div 3
                                            /\ Col(c) \div 3 = i % 3})],
                    8)

(***************************************************************************)
(* Properties of the steps of the search                                   *)
(***************************************************************************)
\* C24: no set_value call of the solver raises NotInDomainException: every
\* value the solver places is in the domain of the target cell at the
\* moment of the call, also when the cell still holds the previous attempt.
C24_AttemptsAreInDomain ==
    [][AuxAttempt =>
           /\ result' # "NotInDomainException"
           /\ arrays'[cp_grid'.inner_grid][Top.current_cell]
                  \in get_domain(cp_grid, Top.current_cell)]_vars

\* C24 witness: a second value has been placed on a cell that still held
\* the first one, and the search went on from it.
C24_Witness ==
    /\ pc = "aux"
    /\ Len(stack) >= 2
    /\ \E i \in 1..(Len(stack) - 1) :
           /\ stack[i].at = "loop"
           /\ Cardinality(stack[i].current_domain \ stack[i].remaining) >= 2
           /\ Grid[stack[i].current_cell] \in stack[i].current_domain

\* C25: when a solver_aux call returns False, the contents of the grid and
\* the domain of every cell are what they were when the call was made; and
\* when the solver returns None, the working grid and its domains are those
\* freshly built from the input.
C25_FailureRestoresState ==
    [][/\ (pc = "aux" /\ stack # << >> /\ ret' = "False" /\ stack' = Pop) =>
              /\ arrays'[cp_grid'.inner_grid] = Top.entry_grid
              /\ cp_grid'.cell_domains = Top.entry_domains
       /\ (pc = "aux" /\ pc' = "done" /\ result' = "None") =>
              /\ arrays'[cp_grid'.inner_grid] = sudoku_before
              /\ cp_grid'.cell_domains =
                     CP_init(<<sudoku_before>>, 1, sudoku.empty_cell_marker).cell_domains]_vars

\* C25 witness: a nested call that had placed values has returned False:
\* the grid is the one its caller was entered with, plus the caller's
\* current attempt, and the caller has values left to try.
C25_Witness ==
    /\ pc = "aux"
    /\ ret = "False"
    /\ stack # << >>
    /\ Top.at = "loop"
    /\ Top.remaining # {}
    /\ Cardinality(Touched) > Len(stack) + 1
    /\ Grid = [Top.entry_grid EXCEPT ![Top.current_cell] = Grid[Top.current_cell]]
    /\ Grid[Top.current_cell] \in Top.current_domain

\* C26: at the entry of every solver_aux call with a target cell, the cell
\* is empty (the assertion never fails), no empty cell has a smaller
\* domain, and the domain passed is the current domain of the cell, the one
\* computed from the grid after the caller's latest placement.
C26_EntryTargetIsFreshMinimum ==
    /\ result # "AssertionError"
    /\ (pc = "aux" /\ stack # << >> /\ Top.at = "entry" /\ Top.current_cell # None) =>
           /\ IsEmpty(Top.current_cell)
           /\ \A d \in EmptyCells :
                  Cardinality(get_domain(cp_grid, d)) >= Cardinality(Top.current_domain)
           /\ Top.current_domain = get_domain(cp_grid, Top.current_cell)
           /\ Top.current_domain = (1..9) \ UnitValues(Top.current_cell)

\* C26 witness: the call made after the second attempt of its caller is
\* entered with a target that has candidates.
C26_Witness ==
    /\ pc = "aux"
    /\ Len(stack) >= 2
    /\ Top.at = "entry"
    /\ Top.current_cell # None
    /\ Top.current_domain # {}
    /\ Cardinality(stack[Len(stack) - 1].current_domain
                       \ stack[Len(stack) - 1].remaining) >= 2

\* C27: the values a solver_aux call iterates are the domain it was entered
\* with, whatever is placed and cleared meanwhile: every placement takes a
\* value of that domain that this call has not placed before, and the call
\* ends by exhaustion only when every value of that domain has been placed.
C27_EveryValueTriedOnce ==
    [][/\ AuxAttempt =>
              /\ arrays'[cp_grid'.inner_grid][Top.current_cell] \in Top.remaining
              /\ Top.remaining \subseteq Top.current_domain
              /\ stack'[Len(stack)].remaining =
                     Top.remaining \ {arrays'[cp_grid'.inner_grid][Top.current_cell]}
              /\ stack'[Len(stack)].current_domain = Top.current_domain
              /\ Top.current_domain = Top.entry_domains[Top.current_cell]
       /\ AuxExhausted => Top.remaining = {}]_vars

\* C27 witness: a call entered with two values or more has placed all of
\* them, the last nested call has failed, and the call is about to end by
\* exhaustion.
C27_Witness ==
    /\ pc = "aux"
    /\ stack # << >>
    /\ Top.at = "loop"
    /\ Top.remaining = {}
    /\ Cardinality(Top.current_domain) >= 2
    /\ ret = "False"

\* C28: a solver_aux call entered with a target whose domain is empty
\* returns False at once: no set_value, no empty_cell, and the grid and the
\* domains are unchanged.
C28_EmptyDomainFailsImmediately ==
    [][(/\ pc = "aux" /\ stack # << >> /\ Top.at = "entry"
        /\ Top.current_cell # None
        /\ Top.current_domain = {}) =>
           /\ ret' = "False"
           /\ stack' = Pop
           /\ arrays' = arrays
           /\ cp_grid' = cp_grid
           /\ ~AuxAttempt
           /\ ~AuxExhausted]_vars

\* C28 witness: a nested call has returned False and its target is still
\* there, empty and without candidates; its caller goes on.
C28_Witness ==
    /\ pc = "aux"
    /\ ret = "False"
    /\ stack # << >>
    /\ Top.at = "loop"
    /\ \E c \in EmptyCells : get_domain(cp_grid, c) = {}

\* C29: once a solver_aux call has returned True, or the grid is full and
\* valid, nothing is placed or cleared any more: the grid the solver returns
\* is the first full valid grid the search reached.
C29_FirstSolutionIsReturned ==
    [][(pc = "aux" /\ (ret = "True" \/ ValidFull(Grid))) =>
           /\ arrays' = arrays
           /\ cp_grid' = cp_grid
           /\ ret' = "True"
           /\ ~AuxAttempt
           /\ ~AuxExhausted
           /\ pc' = "done" => result' = "solution"]_vars

\* C29 witness: success is on its way up through a call that has values
\* left to try.
C29_Witness ==
    /\ pc = "aux"
    /\ ret = "True"
    /\ \E i \in 1..Len(stack) : stack[i].at = "loop" /\ stack[i].remaining # {}
    /\ Grid # sudoku_before

\* the cells that were empty in the grid the solver was called on
InputEmptyCells == {c \in Cell : sudoku_before[c] = sudoku.empty_cell_marker}

\* C30 as stated: the number of active solver_aux calls is at most the
\* number of cells that were empty in the input.
C30_DepthAtMostEmptyCells ==
    Len(stack) <= Cardinality(InputEmptyCells)

\* C30: the number of active solver_aux calls is at most the number of
\* cells that were empty in the input, plus one: the calls below the
\* innermost one have different targets, all empty in the input, and only
\* the innermost call can be the one without target.  It never exceeds 82.
C30_DepthAtMostEmptyCellsPlusOne ==
    /\ Len(stack) <= Cardinality(InputEmptyCells) + 1
    /\ Len(stack) <= GridSize * GridSize + 1
    /\ \A i \in 1..(Len(stack) - 1) :
           /\ stack[i].current_cell \in InputEmptyCells
           /\ \A k \in 1..(Len(stack) - 1) :
                  k # i => stack[k].current_cell # stack[i].current_cell

\* C30 witness: every cell that was empty in the input holds an attempt
\* and the call without target is active on top of their calls.
C30_Witness ==
    /\ pc = "aux"
    /\ Cardinality(InputEmptyCells) >= 2
    /\ Len(stack) = Cardinality(InputEmptyCells) + 1
    /\ Top.current_cell = None

(***************************************************************************)
(* Specification of the grid with the state at the last call: as Spec,     *)
(* and each call records the grid, the domains and the cache it started    *)
(* from.  The record is no program state: it is what the contracts of      *)
(* set_value and empty_cell compare the state after the call with.         *)
(***************************************************************************)
Before == [grid |-> Grid,
           cell_domains |-> cp_grid.cell_domains,
           affected_cells_cache |-> cp_grid.affected_cells_cache]

TraceInit ==
    \E marker \in Markers : \E starting_grid \in GridInputs(marker) :
        /\ arrays = <<starting_grid>>
        /\ sudoku = [inner_grid |-> 1, empty_cell_marker |-> marker]
        /\ cp_grid = CP_init(<<starting_grid>>, 1, marker)
        /\ last_call = NoCall
        /\ pc = "trace"
        /\ stack = << >>
        /\ ret = "none"
        /\ result = "none"
        /\ sudoku_before = starting_grid

TraceSetValue(cell, val, overwrite) ==
    /\ pc = "trace"
    /\ \E r \in {CP_set_value(arrays, cp_grid, cell, val, overwrite)} :
           /\ arrays' = r.arrays
           /\ cp_grid' = r.grid
           /\ last_call' = [op |-> "set_value", cell |-> cell, val |-> val,
                            overwrite |-> overwrite, raised |-> r.raised,
                            before |-> Before]
    /\ UNCHANGED <<sudoku, pc, stack, ret, result, sudoku_before>>

TraceEmptyCell(cell) ==
    /\ pc = "trace"
    /\ \E r \in {CP_empty_cell(arrays, cp_grid, cell)} :
           /\ arrays' = r.arrays
           /\ cp_grid' = r.grid
           /\ last_call' = [op |-> "empty_cell", cell |-> cell, val |-> 0,
                            overwrite |-> FALSE, raised |-> "none",
                            before |-> Before]
    /\ UNCHANGED <<sudoku, pc, stack, ret, result, sudoku_before>>

TraceNext ==
    \/ \E cell \in ActiveCells, val \in ApiVals, overwrite \in BOOLEAN :
           TraceSetValue(cell, val, overwrite)
    \/ \E cell \in ActiveCells : TraceEmptyCell(cell)

TraceSpec == TraceInit /\ [][TraceNext]_vars

(***************************************************************************)
(* Effects of set_value and empty_cell on the grid and the domains         *)
(***************************************************************************)
\* C31: set_value(cell, v, overwrite=False) on a cell that holds a digit u,
\* with v in the cell's domain, succeeds; afterwards the cell holds v, no
\* other cell has changed, u is back in the domain of every cell of the
\* target's row, column and box that has no u in its own row, column and
\* box, and the domain of every cell is the one computed from scratch on
\* the new grid.
C31_ReplaceDigitWithoutOverwrite ==
    (/\ last_call.op = "set_value"
     /\ ~last_call.overwrite
     /\ last_call.before.grid[last_call.cell] \in Digits
     /\ last_call.val \in last_call.before.cell_domains[last_call.cell]) =>
        /\ last_call.raised = "none"
        /\ Grid = [last_call.before.grid EXCEPT ![last_call.cell] = last_call.val]
        /\ \A p \in UnitPeers(last_call.cell) :
               last_call.before.grid[last_call.cell] \notin UnitValues(p) =>
                   last_call.before.grid[last_call.cell] \in get_domain(cp_grid, p)
        /\ \A c \in Cell : get_domain(cp_grid, c) = (1..9) \ UnitValues(c)

\* C31 witness: a digit was replaced by another one with overwrite=False,
\* and an empty cell of the target's row, column or box has the replaced
\* digit in its domain again.
C31_Witness ==
    /\ last_call.op = "set_value"
    /\ ~last_call.overwrite
    /\ last_call.raised = "none"
    /\ last_call.before.grid[last_call.cell] \in Digits
    /\ \E p \in UnitPeers(last_call.cell) :
           /\ IsEmpty(p)
           /\ last_call.before.grid[last_call.cell] \in get_domain(cp_grid, p)
           /\ last_call.before.grid[last_call.cell] \notin last_call.before.cell_domains[p]

\* C32 as stated: after any successful set_value the domain of every cell
\* is a subset of its domain before the call, the domains of the cells
\* outside the target's row, column and box are unchanged, and no cell of
\* the grid other than the target has changed.
C32_SetValueOnlyShrinksDomains ==
    (last_call.op = "set_value" /\ last_call.raised = "none") =>
        /\ \A c \in Cell :
               get_domain(cp_grid, c) \subseteq last_call.before.cell_domains[c]
        /\ \A c \in Cell \ UnitPeers(last_call.cell) :
               get_domain(cp_grid, c) = last_call.before.cell_domains[c]
        /\ \A c \in Cell \ {last_call.cell} : Grid[c] = last_call.before.grid[c]

\* C32: after a successful set_value on a cell that was empty at the call,
\* the domain of every cell is a subset of its domain before the call, the
\* domains of the cells outside the target's row, column and box are
\* unchanged, and no cell of the grid other than the target has changed.
\* After a successful set_value on a cell that held a digit, the last two
\* hold as well, and a domain holds nothing new but that digit.
C32_SetValueOnEmptyCellOnlyShrinksDomains ==
    (last_call.op = "set_value" /\ last_call.raised = "none") =>
        /\ \A c \in Cell :
               get_domain(cp_grid, c) \subseteq
                   last_call.before.cell_domains[c] \cup
                       (IF last_call.before.grid[last_call.cell] = cp_grid.empty_cell_marker
                        THEN {} ELSE {last_call.before.grid[last_call.cell]})
        /\ \A c \in Cell \ UnitPeers(last_call.cell) :
               get_domain(cp_grid, c) = last_call.before.cell_domains[c]
        /\ \A c \in Cell \ {last_call.cell} : Grid[c] = last_call.before.grid[c]

\* C32 witness: a digit was written on an empty cell, an empty cell of its
\* row, column or box has lost the digit and kept others.
C32_Witness ==
    /\ last_call.op = "set_value"
    /\ last_call.raised = "none"
    /\ last_call.before.grid[last_call.cell] = cp_grid.empty_cell_marker
    /\ \E p \in UnitPeers(last_call.cell) :
           /\ IsEmpty(p)
           /\ get_domain(cp_grid, p) # {}
           /\ get_domain(cp_grid, p) # last_call.before.cell_domains[p]

\* C33: empty_cell on a cell that is empty changes neither the grid nor any
\* of the 81 domains; and after any empty_cell, a second empty_cell on the
\* same cell changes neither.
C33_EmptyCellIdempotent ==
    last_call.op = "empty_cell" =>
        /\ last_call.before.grid[last_call.cell] = cp_grid.empty_cell_marker =>
               /\ Grid = last_call.before.grid
               /\ cp_grid.cell_domains = last_call.before.cell_domains
        /\ \A again \in {CP_empty_cell(arrays, cp_grid, last_call.cell)} :
               /\ again.arrays[again.grid.inner_grid] = Grid
               /\ again.grid.cell_domains = cp_grid.cell_domains

\* C33 witness: empty_cell was called on a cell that had been written and
\* cleared before, next to filled cells.
C33_Witness ==
    /\ last_call.op = "empty_cell"
    /\ last_call.before.grid[last_call.cell] = cp_grid.empty_cell_marker
    /\ last_call.cell \in Touched
    /\ \E q \in Touched \ {last_call.cell} : ~IsEmpty(q)

\* C34: whatever calls were made before and whether the cache has the cell
\* or not, the peer set handed out for a cell is the union of the cells of
\* its row, of its column and of its 3x3 box: it holds the cell itself and
\* has 20 or 21 cells.
C34_PeerSetDependsOnCoordinatesOnly ==
    pc = "trace" =>
        \A c \in Cell :
            \A got \in {get_affected_cells(cp_grid, c).cells} :
                /\ got = {p \in Cell : Row(p) = Row(c)}
                         \cup {p \in Cell : Col(p) = Col(c)}
                         \cup {p \in Cell : /\ Row(p) \div 3 = Row(c) \div 3
                                            /\ Col(p) \div 3 = Col(c) \div 3}
                /\ c \in got
                /\ Cardinality(got) \in {20, 21}

\* C34 witness: the last call was served from the cache, the grid is not
\* the one the cache entry was made on, and another cell is not cached yet.
C34_Witness ==
    /\ pc = "trace"
    /\ last_call.op # "init"
    /\ last_call.cell \in DOMAIN last_call.before.affected_cells_cache
    /\ Grid # sudoku_before
    /\ Grid # last_call.before.grid
    /\ \E c \in ActiveCells : c \notin Touched

\* C38: a set_value call that raises, NotInDomainException or the
\* ValueError for a cell that holds a digit when overwrite=True, leaves the
\* grid and the 81 domains as they were at the call.
C38_FailedSetValueChangesNothing ==
    (last_call.op = "set_value" /\ last_call.raised # "none") =>
        /\ last_call.raised \in {"NotInDomainException", "ValueError"}
        /\ Grid = last_call.before.grid
        /\ cp_grid.cell_domains = last_call.before.cell_domains

\* C38 witness: set_value with overwrite=True was refused on a cell that
\* holds a digit, for a value that is in the domain of the cell.
C38_Witness ==
    /\ last_call.op = "set_value"
    /\ last_call.raised = "ValueError"
    /\ last_call.overwrite
    /\ last_call.before.grid[last_call.cell] \in Digits
    /\ last_call.val \in last_call.before.cell_domains[last_call.cell]

(***************************************************************************)
(* Well-formedness of the base grid                                        *)
(***************************************************************************)
\* C35: in every state of a SudokuGrid, after its construction and after
\* any set_value and empty_cell call, the grid has 81 entries (it was
\* built on a 9x9 array), each entry is a digit 1..9 or the marker of the
\* grid, and the marker is no digit 1..9.
C35_GridIsWellFormed ==
    /\ (last_call.op = "__init__" /\ last_call.raised = "none") =>
           /\ last_call.shape = <<GridSize, GridSize>>
           /\ last_call.marker \notin Digits
    /\ pc = "base" =>
           /\ sudoku.empty_cell_marker \notin Digits
           /\ DOMAIN BaseGrid = Cell
           /\ \A c \in Cell : BaseGrid[c] \in Digits \cup {sudoku.empty_cell_marker}

(***************************************************************************)
(* What the swaps and the search leave in place                            *)
(***************************************************************************)
\* C36: a SimulatedAnnealingSudokuGrid built from a puzzle whose rows hold
\* no repeated digit keeps, through any number of swap_two_cells_same_row
\* calls, each row a permutation of 1..9 and each cell that was filled in
\* the puzzle at the value of the puzzle.
C36_SwapsKeepRowsAndStartingCells ==
    (pc = "annealing" /\ NoRepeatInRows(sudoku_before)) =>
        /\ \A i \in Indices : SetOf(get_row(arrays, sudoku, i)) = 1..9
        /\ \A c \in sudoku.starting_cells : BaseGrid[c] = sudoku_before[c]
        /\ sudoku.starting_cells =
               {c \in Cell : sudoku_before[c] # sudoku.empty_cell_marker}

\* C36 witness: two cells holding different values have just been swapped
\* in a row that holds starting cells, and the other row with empty cells
\* in the puzzle does not hold the values it was built with.
C36_Witness ==
    /\ pc = "annealing"
    /\ NoRepeatInRows(sudoku_before)
    /\ last_call.op = "swap_two_cells_same_row"
    /\ last_call.val_1 # last_call.val_2
    /\ \E c \in sudoku.starting_cells : Row(c) = Row(last_call.cell_1)
    /\ \E i \in Indices \ {Row(last_call.cell_1)} :
           \E c \in Cell \ sudoku.starting_cells : Row(c) = i

\* C37: the solver writes and clears only cells that were empty in the grid
\* it was called on: in every state of the search and in the grid it
\* returns, every other cell holds the value of the input.
C37_SearchKeepsGivenCells ==
    pc \in {"aux", "done"} =>
        \A c \in Cell \ InputEmptyCells : Grid[c] = sudoku_before[c]

\* C37 witness: the search has placed values, taken one of them back, and
\* works next to given cells of the same row.
C37_Witness ==
    /\ pc = "aux"
    /\ ret = "False"
    /\ \E c \in Touched : IsEmpty(c)
    /\ \E c \in Touched :
           /\ ~IsEmpty(c)
           /\ \E g \in Cell \ InputEmptyCells : Row(g) = Row(c)

(***************************************************************************)
(* Specification of the steps of swap_two_cells_same_row: the loop of      *)
(* _get_random_row_neighbors draws one row per step.  stack holds the      *)
(* local variables of the call.                                            *)
(***************************************************************************)
\* rnd_row_idx before the first draw, and valid_neighbors when it is None
NotDrawn == 0 - 1
NoNeighbors == {}

\* swap_two_cells_same_row is called and _get_random_row_neighbors starts
SwapEnter ==
    /\ pc = "annealing"
    /\ pc' = "row_loop"
    /\ stack' = <<[rnd_row_idx |-> NotDrawn, valid_neighbors |-> NoNeighbors]>>
    /\ UNCHANGED <<arrays, sudoku, cp_grid, last_call, ret, result, sudoku_before>>

\* one turn of the while loop that accepts rows of three free cells or more
SwapDrawRow_needs_three(rnd_row_idx) ==
    /\ pc = "row_loop"
    /\ \E valid_neighbors \in
              {{<<rnd_row_idx, i>> : i \in Indices} \ sudoku.starting_cells} :
           IF Cardinality(valid_neighbors) < 3
           THEN /\ stack' = <<[rnd_row_idx |-> rnd_row_idx, valid_neighbors |-> NoNeighbors]>>
                /\ UNCHANGED pc
           ELSE /\ stack' = <<[rnd_row_idx |-> rnd_row_idx,
                               valid_neighbors |-> valid_neighbors]>>
                /\ pc' = "picked"
    /\ UNCHANGED <<arrays, sudoku, cp_grid, last_call, ret, result, sudoku_before>>

\* one turn of the while loop: a row is drawn, and the loop goes on when
\* the row has less than two cells outside starting_cells
SwapDrawRow(rnd_row_idx) ==
    /\ pc = "row_loop"
    /\ \E valid_neighbors \in
              {{<<rnd_row_idx, i>> : i \in Indices} \ sudoku.starting_cells} :
           IF Cardinality(valid_neighbors) < 2
           THEN /\ stack' = <<[rnd_row_idx |-> rnd_row_idx, valid_neighbors |-> NoNeighbors]>>
                /\ UNCHANGED pc
           ELSE /\ stack' = <<[rnd_row_idx |-> rnd_row_idx,
                               valid_neighbors |-> valid_neighbors]>>
                /\ pc' = "picked"
    /\ UNCHANGED <<arrays, sudoku, cp_grid, last_call, ret, result, sudoku_before>>

\* the two cells are drawn in the row and their values are exchanged
SwapCells ==
    /\ pc = "picked"
    /\ \E pair \in stack[1].valid_neighbors \X stack[1].valid_neighbors :
       \E r \in {swap_two_cells_same_row(arrays, sudoku, pair[1], pair[2])} :
           /\ arrays' = r.arrays
           /\ last_call' = [op |-> "swap_two_cells_same_row",
                            cell_1 |-> pair[1], cell_2 |-> pair[2],
                            val_1 |-> get_value(arrays, sudoku, pair[1]),
                            val_2 |-> get_value(arrays, sudoku, pair[2]),
                            raised |-> r.raised, returned |-> r.returned]
    /\ pc' = "annealing"
    /\ stack' = << >>
    /\ UNCHANGED <<sudoku, cp_grid, ret, result, sudoku_before>>

SwapNext ==
    \/ AnnealingConstruct
    \/ SwapEnter
    \/ \E rnd_row_idx \in Indices : SwapDrawRow(rnd_row_idx)
    \/ SwapCells

\* every row is drawn again and again while the loop runs, and a call that
\* has its row goes on
FairSwapSpec ==
    /\ AnnealingInit
    /\ [][SwapNext]_vars
    /\ \A rnd_row_idx \in Indices : WF_vars(SwapDrawRow(rnd_row_idx))
    /\ WF_vars(SwapCells)

\* some row of the starting puzzle has two empty cells or more
HasRowWithTwoEmptyCells ==
    \E i \in Indices :
        Cardinality({j \in Indices :
                        sudoku_before[<<i, j>>] = sudoku.empty_cell_marker}) >= 2

\* C39: a swap_two_cells_same_row call returns, when every row keeps being
\* drawn, if some row has two cells or more that were empty in the starting
\* puzzle; if no row has, the call stays in the row-selection loop for ever.
C39_SwapTerminatesIffRowWithTwoEmptyCells ==
    /\ (pc = "row_loop" /\ HasRowWithTwoEmptyCells) ~> (pc = "annealing")
    /\ [][(pc = "row_loop" /\ ~HasRowWithTwoEmptyCells) => pc' = "row_loop"]_vars

\* C39 witness: a swap has been made, and the next call has drawn a row
\* that has less than two cells to swap and draws again.
C39_Witness ==
    /\ pc = "row_loop"
    /\ HasRowWithTwoEmptyCells
    /\ last_call.op = "swap_two_cells_same_row"
    /\ stack[1].rnd_row_idx # NotDrawn
    /\ \E i \in Indices :
           Cardinality({j \in Indices :
                           sudoku_before[<<i, j>>] = sudoku.empty_cell_marker}) = 1

====
